---- MODULE Spec2Model ----
(***************************************************************************)
(* Model of the rule evaluation engine of hcp-config-validator             *)
(* (src/validator/rules_engine.py): evaluate_rule, _eval_single and        *)
(* run_rules_for_file, over a tagged universe of Python values.            *)
(*                                                                         *)
(* A Python value is the pair << tag, payload >>.  String operations        *)
(* (startswith, endswith, replace, int(), float(), str(), re.search, the    *)
(* parsing of a path expression) are computed on the sequence of the        *)
(* string's characters, Chars(s), not assumed.                              *)
(* A Python call either returns a value or raises: Ret(x) / Raise(e).      *)
(***************************************************************************)
EXTENDS Integers, Sequences, FiniteSets, TLC

(* ---------------------------------------------------------------------- *)
(* Python values                                                          *)
(* ---------------------------------------------------------------------- *)

\* the kind of a value and what it holds
Tag(x) == x[1]

Val(x) == x[2]

\* None
Null == << "null", 0 >>

\* a key that a dict (a rule record) does not have; never a document value
Missing == << "missing", 0 >>

PyInt(n) == << "int", n >>

PyBool(b) == << "bool", b >>

PyStr(s) == << "str", s >>

\* s: the sequence of the list's elements
PyList(s) == << "list", s >>

\* ps: the sequence of the dict's <<key, value>> pairs, keys being strings, in
\* insertion order
PyMap(ps) == << "map", ps >>

IsNone(x) == Tag(x) = "null"

IsStr(x) == Tag(x) = "str"

IsList(x) == Tag(x) = "list"

IsMap(x) == Tag(x) = "map"

\* int and bool are Python's numbers of the model (bool is a subclass of int)
IsNum(x) == Tag(x) \in {"int", "bool"}

NumOf(x) == IF Tag(x) = "bool" THEN (IF Val(x) THEN 1 ELSE 0) ELSE Val(x)

\* the outcome of a call: a returned value, or a raised exception
Ret(x) == [exc |-> "none", val |-> x]

Raise(e) == [exc |-> e, val |-> Null]

Raised(o) == o.exc # "none"

(* ---------------------------------------------------------------------- *)
(* Characters and strings                                                 *)
(* ---------------------------------------------------------------------- *)

\* the characters of the model in ascending code point order
Alphabet ==
  << " ", "'", "(", ")", "*", "+", ",", "-", ".",
     "0", "1", "2", "3", "4", "5", "6", "7", "8", "9", ":",
     "A", "B", "C", "D", "E", "F", "G", "H", "I", "J", "K", "L", "M",
     "N", "O", "P", "Q", "R", "S", "T", "U", "V", "W", "X", "Y", "Z",
     "[", "]", "_",
     "a", "b", "c", "d", "e", "f", "g", "h", "i", "j", "k", "l", "m",
     "n", "o", "p", "q", "r", "s", "t", "u", "v", "w", "x", "y", "z",
     "{", "}" >>

Ord(c) == CHOOSE i \in 1..Len(Alphabet) : Alphabet[i] = c

Digits == {"0", "1", "2", "3", "4", "5", "6", "7", "8", "9"}

DigitVal(c) == Ord(c) - Ord("0")

\* s[from..] (1-based), the empty sequence when from is past the end
Drop(s, from) == IF from > Len(s) THEN << >> ELSE SubSeq(s, from, Len(s))

\* str.startswith
StartsWith(s, p) == Len(p) <= Len(s) /\ SubSeq(s, 1, Len(p)) = p

\* str.endswith
EndsWith(s, p) ==
  Len(p) <= Len(s) /\ SubSeq(s, Len(s) - Len(p) + 1, Len(s)) = p

\* str.replace(old, ""): every non-overlapping occurrence of old, left to right
RECURSIVE Remove(_, _)
Remove(s, old) ==
  IF s = << >> \/ old = << >> THEN s
  ELSE IF StartsWith(s, old) THEN Remove(Drop(s, Len(old) + 1), old)
  ELSE << Head(s) >> \o Remove(Tail(s), old)

\* str.strip() for the one whitespace character of the alphabet
RECURSIVE LStrip(_)
LStrip(s) == IF s # << >> /\ Head(s) = " " THEN LStrip(Tail(s)) ELSE s

RECURSIVE RStrip(_)
RStrip(s) ==
  IF s # << >> /\ s[Len(s)] = " " THEN RStrip(SubSeq(s, 1, Len(s) - 1)) ELSE s

Strip(s) == RStrip(LStrip(s))

AllDigits(s) == s # << >> /\ \A i \in 1..Len(s) : s[i] \in Digits

\* the value of a run of decimal digits
RECURSIVE DigitsVal(_)
DigitsVal(s) ==
  IF s = << >> THEN 0
  ELSE 10 * DigitsVal(SubSeq(s, 1, Len(s) - 1)) + DigitVal(s[Len(s)])

\* the sign a numeral starts with, and the numeral without it
SignOf(s) == IF s # << >> /\ Head(s) = "-" THEN -1 ELSE 1

Unsigned(s) == IF s # << >> /\ Head(s) \in {"+", "-"} THEN Tail(s) ELSE s

\* int(s) of a str: surrounding blanks, an optional sign, decimal digits;
\* anything else is a ValueError (digit-group underscores are not modelled:
\* no string of the model has one inside a numeral)
ParseInt(s) ==
  LET u == Unsigned(Strip(s)) IN
  IF AllDigits(u) THEN Ret(PyInt(SignOf(Strip(s)) * DigitsVal(u)))
  ELSE Raise("ValueError")

\* lexicographic str < str by code point
RECURSIVE StrLess(_, _)
StrLess(a, b) ==
  IF b = << >> THEN FALSE
  ELSE IF a = << >> THEN TRUE
  ELSE IF Head(a) = Head(b) THEN StrLess(Tail(a), Tail(b))
  ELSE Ord(Head(a)) < Ord(Head(b))

\* the characters of the strings that rules and documents of the model hold
Chars(s) ==
  CASE s = "" -> << >>
    [] s = "(" -> << "(" >>
    [] s = "1.5" -> << "1", ".", "5" >>
    [] s = "5" -> << "5" >>
    [] s = "BEGIN" -> << "B", "E", "G", "I", "N" >>
    [] s = "BEGIN SECRET" ->
         << "B", "E", "G", "I", "N", " ", "S", "E", "C", "R", "E", "T" >>
    [] s = "R1" -> << "R", "1" >>
    [] s = "R2" -> << "R", "2" >>
    [] s = "TLS" -> << "T", "L", "S" >>
    [] s = "a" -> << "a" >>
    [] s = "abc" -> << "a", "b", "c" >>
    [] s = "absent" -> << "a", "b", "s", "e", "n", "t" >>
    [] s = "address" -> << "a", "d", "d", "r", "e", "s", "s" >>
    [] s = "b" -> << "b" >>
    [] s = "bar" -> << "b", "a", "r" >>
    [] s = "c" -> << "c" >>
    [] s = "critical" -> << "c", "r", "i", "t", "i", "c", "a", "l" >>
    [] s = "equals" -> << "e", "q", "u", "a", "l", "s" >>
    [] s = "exists" -> << "e", "x", "i", "s", "t", "s" >>
    [] s = "fix" -> << "f", "i", "x" >>
    [] s = "foo" -> << "f", "o", "o" >>
    [] s = "foo.bar" -> << "f", "o", "o", ".", "b", "a", "r" >>
    [] s = "foo.bar.baz" ->
         << "f", "o", "o", ".", "b", "a", "r", ".", "b", "a", "z" >>
    [] s = "foo.baz" -> << "f", "o", "o", ".", "b", "a", "z" >>
    [] s = "foo[" -> << "f", "o", "o", "[" >>
    [] s = "foo[.tls_min_version" ->
         << "f", "o", "o", "[", ".", "t", "l", "s", "_", "m", "i", "n", "_",
            "v", "e", "r", "s", "i", "o", "n" >>
    [] s = "gt" -> << "g", "t" >>
    [] s = "in" -> << "i", "n" >>
    [] s = "info" -> << "i", "n", "f", "o" >>
    [] s = "items" -> << "i", "t", "e", "m", "s" >>
    [] s = "items[*]" -> << "i", "t", "e", "m", "s", "[", "*", "]" >>
    [] s = "items[0]" -> << "i", "t", "e", "m", "s", "[", "0", "]" >>
    [] s = "listener" -> << "l", "i", "s", "t", "e", "n", "e", "r" >>
    [] s = "listener[*].tls_min_version" ->
         << "l", "i", "s", "t", "e", "n", "e", "r", "[", "*", "]", ".", "t",
            "l", "s", "_", "m", "i", "n", "_", "v", "e", "r", "s", "i", "o",
            "n" >>
    [] s = "listener[0].tls_min_version" ->
         << "l", "i", "s", "t", "e", "n", "e", "r", "[", "0", "]", ".", "t",
            "l", "s", "_", "m", "i", "n", "_", "v", "e", "r", "s", "i", "o",
            "n" >>
    [] s = "lt" -> << "l", "t" >>
    [] s = "nope.tls_min_version" ->
         << "n", "o", "p", "e", ".", "t", "l", "s", "_", "m", "i", "n", "_",
            "v", "e", "r", "s", "i", "o", "n" >>
    [] s = "not_equals" ->
         << "n", "o", "t", "_", "e", "q", "u", "a", "l", "s" >>
    [] s = "regex" -> << "r", "e", "g", "e", "x" >>
    [] s = "safe" -> << "s", "a", "f", "e" >>
    [] s = "startswith" ->
         << "s", "t", "a", "r", "t", "s", "w", "i", "t", "h" >>
    [] s = "tls1.2" -> << "t", "l", "s", "1", ".", "2" >>
    [] s = "tls12" -> << "t", "l", "s", "1", "2" >>
    [] s = "tls13" -> << "t", "l", "s", "1", "3" >>
    [] s = "tls_min_version" ->
         << "t", "l", "s", "_", "m", "i", "n", "_", "v", "e", "r", "s", "i",
            "o", "n" >>
    [] s = "tlsx" -> << "t", "l", "s", "x" >>
    [] s = "warning" -> << "w", "a", "r", "n", "i", "n", "g" >>

\* the decimal digits of a natural number
RECURSIVE NatChars(_)
NatChars(n) ==
  IF n < 10 THEN << Alphabet[Ord("0") + n] >>
  ELSE NatChars(n \div 10) \o << Alphabet[Ord("0") + (n % 10)] >>

IntChars(n) == IF n < 0 THEN << "-" >> \o NatChars(-n) ELSE NatChars(n)

(* ---------------------------------------------------------------------- *)
(* Python operations on values                                            *)
(* ---------------------------------------------------------------------- *)

\* bool(x): the truth value of x in `if x:` and `x and ...`
Truthy(x) ==
  CASE Tag(x) = "null" -> FALSE
    [] Tag(x) = "missing" -> FALSE
    [] Tag(x) = "bool" -> Val(x)
    [] Tag(x) = "int" -> Val(x) # 0
    [] Tag(x) = "str" -> Val(x) # ""
    [] OTHER -> Val(x) # << >>

\* the keys of a dict
Keys(m) == { Val(m)[i][1] : i \in 1..Len(Val(m)) }

\* m[k] of a dict that has the key k
ValueAt(m, k) == Val(m)[CHOOSE i \in 1..Len(Val(m)) : Val(m)[i][1] = k][2]

\* a == b: numbers by value (True == 1), strings by their characters, lists
\* element by element, dicts key by key; values of different kinds are unequal
RECURSIVE PyEq(_, _)
PyEq(a, b) ==
  IF IsNum(a) /\ IsNum(b) THEN NumOf(a) = NumOf(b)
  ELSE IF Tag(a) # Tag(b) THEN FALSE
  ELSE IF Tag(a) = "list"
    THEN /\ Len(Val(a)) = Len(Val(b))
         /\ \A i \in 1..Len(Val(a)) : PyEq(Val(a)[i], Val(b)[i])
  ELSE IF Tag(a) = "map"
    THEN /\ Keys(a) = Keys(b)
         /\ \A k \in Keys(a) : PyEq(ValueAt(a, k), ValueAt(b, k))
  ELSE Val(a) = Val(b)

\* sep.join(parts)
RECURSIVE Join(_, _)
Join(parts, sep) ==
  IF parts = << >> THEN << >>
  ELSE IF Len(parts) = 1 THEN parts[1]
  ELSE parts[1] \o sep \o Join(Tail(parts), sep)

\* the characters of repr(x) (the strings of the model hold no quote or escape)
RECURSIVE Repr(_)
Repr(x) ==
  CASE Tag(x) = "null" -> << "N", "o", "n", "e" >>
    [] Tag(x) = "bool" -> IF Val(x) THEN << "T", "r", "u", "e" >>
                       ELSE << "F", "a", "l", "s", "e" >>
    [] Tag(x) = "int" -> IntChars(Val(x))
    [] Tag(x) = "str" -> << "'" >> \o Chars(Val(x)) \o << "'" >>
    [] Tag(x) = "list" ->
         << "[" >> \o Join([i \in 1..Len(Val(x)) |-> Repr(Val(x)[i])],
                           << ",", " " >>)
                   \o << "]" >>
    [] Tag(x) = "map" ->
         << "{" >> \o Join([i \in 1..Len(Val(x)) |->
                              << "'" >> \o Chars(Val(x)[i][1])
                                        \o << "'", ":", " " >>
                                        \o Repr(Val(x)[i][2])],
                           << ",", " " >>)
                   \o << "}" >>

\* the characters of str(x)
StrOf(x) == IF Tag(x) = "str" THEN Chars(Val(x)) ELSE Repr(x)

\* a float as the fraction n/d, d > 0
Frac(n, d) == [n |-> n, d |-> d]

RECURSIVE Pow10(_)
Pow10(k) == IF k = 0 THEN 1 ELSE 10 * Pow10(k - 1)

\* the position of the first "." of s, 0 when it has none
DotAt(s) ==
  IF \E i \in 1..Len(s) : s[i] = "."
  THEN CHOOSE i \in 1..Len(s) : s[i] = "." /\ \A j \in 1..(i - 1) : s[j] # "."
  ELSE 0

\* float(s) of a str: surrounding blanks, an optional sign, decimal digits
\* with at most one point; anything else is a ValueError (exponents, inf, nan
\* and digit-group underscores are not modelled: no string of the model is one)
ParseFloat(s) ==
  LET u == Unsigned(Strip(s))
      k == DotAt(u)
      ip == IF k = 0 THEN u ELSE SubSeq(u, 1, k - 1)
      fp == IF k = 0 THEN << >> ELSE Drop(u, k + 1)
      okPart(p) == \A i \in 1..Len(p) : p[i] \in Digits
  IN IF okPart(ip) /\ okPart(fp) /\ (ip \o fp) # << >>
     THEN Ret(Frac(SignOf(Strip(s)) * DigitsVal(ip \o fp), Pow10(Len(fp))))
     ELSE Raise("ValueError")

\* float(x): a number, a numeric str, or an error
FloatOf(x) ==
  CASE IsNum(x) -> Ret(Frac(NumOf(x), 1))
    [] Tag(x) = "str" -> ParseFloat(Chars(Val(x)))
    [] OTHER -> Raise("TypeError")

FracLess(a, b) == a.n * b.d < b.n * a.d

\* a < b of two values: numbers by value, strings by code point, lists
\* lexicographically; any other pairing is a TypeError
RECURSIVE PyLess(_, _)
PyLess(a, b) ==
  IF IsNum(a) /\ IsNum(b) THEN Ret(NumOf(a) < NumOf(b))
  ELSE IF Tag(a) = "str" /\ Tag(b) = "str"
    THEN Ret(StrLess(Chars(Val(a)), Chars(Val(b))))
  ELSE IF Tag(a) = "list" /\ Tag(b) = "list" THEN
    LET n == IF Len(Val(a)) < Len(Val(b)) THEN Len(Val(a)) ELSE Len(Val(b))
        differ == { i \in 1..n : ~PyEq(Val(a)[i], Val(b)[i]) }
    IN IF differ = {} THEN Ret(Len(Val(a)) < Len(Val(b)))
       ELSE LET i == CHOOSE m \in differ : \A o \in differ : m <= o
            IN PyLess(Val(a)[i], Val(b)[i])
  ELSE Raise("TypeError")

\* a > b is b < a
PyGreater(a, b) == PyLess(b, a)

\* needle occurs in hay as a contiguous run
IsSubstring(needle, hay) ==
  \E off \in 0..(Len(hay) - Len(needle)) :
    \A j \in 1..Len(needle) : hay[off + j] = needle[j]

\* x in c: membership in a list by ==, substring of a str, key of a dict;
\* a TypeError when c is no container, when c is a str and x is not, or when
\* c is a dict and x is unhashable
Contains(c, x) ==
  CASE Tag(c) = "list" -> Ret(\E i \in 1..Len(Val(c)) : PyEq(x, Val(c)[i]))
    [] Tag(c) = "str" -> IF Tag(x) = "str"
                      THEN Ret(IsSubstring(Chars(Val(x)), Chars(Val(c))))
                      ELSE Raise("TypeError")
    [] Tag(c) = "map" -> IF Tag(x) \in {"list", "map"} THEN Raise("TypeError")
                      ELSE Ret(Tag(x) = "str" /\ Val(x) \in Keys(c))
    [] OTHER -> Raise("TypeError")

\* the pattern without its group parentheses
RECURSIVE Ungroup(_)
Ungroup(p) ==
  IF p = << >> THEN << >>
  ELSE IF Head(p) \in {"(", ")"} THEN Ungroup(Tail(p))
  ELSE << Head(p) >> \o Ungroup(Tail(p))

\* the nesting depth after each prefix of the pattern
RECURSIVE Depth(_)
Depth(p) ==
  IF p = << >> THEN 0
  ELSE Depth(SubSeq(p, 1, Len(p) - 1))
       + (IF p[Len(p)] = "(" THEN 1 ELSE IF p[Len(p)] = ")" THEN -1 ELSE 0)

\* re.compile accepts the pattern: its parentheses balance.  The patterns of
\* the model are literals, "." and plain groups; no other metacharacter occurs
ReValid(p) ==
  /\ Depth(p) = 0
  /\ \A i \in 1..Len(p) : Depth(SubSeq(p, 1, i)) >= 0

\* the pattern matches somewhere in s ("." is any character)
ReFound(p, s) ==
  LET q == Ungroup(p) IN
  \E off \in 0..(Len(s) - Len(q)) :
    \A j \in 1..Len(q) : q[j] = "." \/ s[off + j] = q[j]

\* bool(re.search(pattern, s)), s given by its characters: a TypeError when
\* pattern is no str, re.error when it does not compile
ReSearch(pattern, s) ==
  IF Tag(pattern) # "str" THEN Raise("TypeError")
  ELSE IF ~ReValid(Chars(Val(pattern))) THEN Raise("re.error")
  ELSE Ret(ReFound(Chars(Val(pattern)), s))

(* ---------------------------------------------------------------------- *)
(* jmespath.search, for the expressions                                   *)
(*   ident ( "." ident | "[" digits "]" | "[*]" )*                        *)
(* (optionally starting with a bracket); any other text is a parse error  *)
(* ---------------------------------------------------------------------- *)

Letters == { Alphabet[i] : i \in Ord("A")..Ord("Z") }
             \cup { Alphabet[i] : i \in Ord("a")..Ord("z") } \cup {"_"}

\* the length of the longest prefix of s made of characters of cs
RECURSIVE Span(_, _)
Span(s, cs) == IF s # << >> /\ Head(s) \in cs THEN 1 + Span(Tail(s), cs) ELSE 0

Field(name) == [k |-> "field", name |-> name, i |-> 0]

Index(i) == [k |-> "index", name |-> << >>, i |-> i]

Star == [k |-> "star", name |-> << >>, i |-> 0]

ParseOk(steps) == [ok |-> TRUE, steps |-> steps]

ParseError == [ok |-> FALSE, steps |-> << >>]

\* a step in front of an already parsed rest
Cons(step, rest) ==
  IF rest.ok THEN ParseOk(<< step >> \o rest.steps) ELSE ParseError

\* an identifier at the head of s, then the suffixes
RECURSIVE ParseIdent(_), ParseSuffixes(_)
ParseIdent(s) ==
  LET n == IF s # << >> /\ Head(s) \in Letters
           THEN Span(s, Letters \cup Digits) ELSE 0
  IN IF n = 0 THEN ParseError
     ELSE Cons(Field(SubSeq(s, 1, n)), ParseSuffixes(Drop(s, n + 1)))

ParseSuffixes(s) ==
  IF s = << >> THEN ParseOk(<< >>)
  ELSE IF Head(s) = "." THEN ParseIdent(Tail(s))
  ELSE IF StartsWith(s, << "[", "*", "]" >>)
    THEN Cons(Star, ParseSuffixes(Drop(s, 4)))
  ELSE IF Head(s) = "[" THEN
    LET n == Span(Tail(s), Digits) IN
    IF n > 0 /\ Len(s) >= n + 2 /\ s[n + 2] = "]"
    THEN Cons(Index(DigitsVal(SubSeq(s, 2, n + 1))),
              ParseSuffixes(Drop(s, n + 3)))
    ELSE ParseError
  ELSE ParseError

ParsePath(s) ==
  IF s # << >> /\ Head(s) = "[" THEN ParseSuffixes(s) ELSE ParseIdent(s)

\* the elements of s that are not None, in order
RECURSIVE DropNone(_)
DropNone(s) ==
  IF s = << >> THEN << >>
  ELSE IF IsNone(Head(s)) THEN DropNone(Tail(s))
  ELSE << Head(s) >> \o DropNone(Tail(s))

\* the value the parsed expression selects in v: a field of a dict, an element
\* of a list, or the projection of the rest onto every element of a list
\* (None results dropped); None where the shape does not fit
RECURSIVE Select(_, _)
Select(steps, v) ==
  IF steps = << >> THEN v
  ELSE LET st == Head(steps)
           rest == Tail(steps)
       IN CASE st.k = "field" ->
                 IF IsMap(v) /\ \E key \in Keys(v) : Chars(key) = st.name
                 THEN Select(rest, ValueAt(v, CHOOSE key \in Keys(v) :
                                                Chars(key) = st.name))
                 ELSE Null
            [] st.k = "index" ->
                 IF IsList(v) /\ st.i < Len(Val(v))
                 THEN Select(rest, Val(v)[st.i + 1]) ELSE Null
            [] st.k = "star" ->
                 IF IsList(v)
                 THEN PyList(DropNone([i \in 1..Len(Val(v)) |->
                                         Select(rest, Val(v)[i])]))
                 ELSE Null

\* jmespath.search(expr, doc)
Search(expr, doc) ==
  IF Tag(expr) # "str" THEN Raise("TypeError")
  ELSE LET p == ParsePath(Chars(Val(expr))) IN
       IF p.ok THEN Ret(Select(p.steps, doc)) ELSE Raise("ParseError")

(* ---------------------------------------------------------------------- *)
(* Rule records                                                           *)
(* ---------------------------------------------------------------------- *)

RuleKeys ==
  {"id", "title", "severity", "jmespath", "operator", "expected",
   "message", "remediation", "reference"}

\* rule.get(key): None when the rule lacks the key
Get(rule, key) == IF rule[key] = Missing THEN Null ELSE rule[key]

\* GetOr with the default left out: rule.get(key)
GetOrNoDefault(rule, key, default) == Get(rule, key)

\* rule.get(key, default)
GetOr(rule, key, default) == IF rule[key] = Missing THEN default ELSE rule[key]

\* _eval_single's rule argument when the caller passes none (rule=None)
NoRule == [k \in RuleKeys |-> Missing]

S_tls == << "t", "l", "s" >>

S_tls_min_version ==
  << "t", "l", "s", "_", "m", "i", "n", "_", "v", "e", "r", "s", "i", "o", "n" >>

OpExists == PyStr("exists")

OpAbsent == PyStr("absent")

OpEquals == PyStr("equals")

OpNotEquals == PyStr("not_equals")

OpIn == PyStr("in")

OpRegex == PyStr("regex")

OpGt == PyStr("gt")

OpLt == PyStr("lt")

OPERATORS == {OpExists, OpEquals, OpIn, OpRegex, OpGt, OpLt, OpNotEquals, OpAbsent}

(* ---------------------------------------------------------------------- *)
(* _eval_single                                                           *)
(* ---------------------------------------------------------------------- *)

\* _eval_single.tls_version_to_num
tls_version_to_num(v) ==
  IF IsNone(v) THEN Ret(PyInt(0))
  ELSE IF IsStr(v) /\ StartsWith(Chars(Val(v)), S_tls)
    THEN ParseInt(Remove(Chars(Val(v)), S_tls))
  ELSE Ret(v)

\* `rule and rule.get("jmespath", "").endswith("tls_min_version")`: false for
\* no rule or an empty one, an AttributeError when the key holds no str
TlsPath(rule) ==
  IF \A k \in RuleKeys : rule[k] = Missing THEN Ret(FALSE)
  ELSE LET j == GetOr(rule, "jmespath", PyStr("")) IN
       IF IsStr(j) THEN Ret(EndsWith(Chars(Val(j)), S_tls_min_version))
       ELSE Raise("AttributeError")

\* cmp(tls_version_to_num(observed), tls_version_to_num(expected)), where
\* cmp(a, b) is itself an outcome
VersionCompare(kind, observed, expected) ==
  LET cmp(a, b) ==
        IF Raised(a) THEN a
        ELSE IF Raised(b) THEN b
        ELSE CASE kind = "eq" -> Ret(PyEq(a.val, b.val))
               [] kind = "ne" -> Ret(~PyEq(a.val, b.val))
               [] kind = "gt" -> PyGreater(a.val, b.val)
               [] kind = "lt" -> PyLess(a.val, b.val)
  IN cmp(tls_version_to_num(observed), tls_version_to_num(expected))

\* try: return float(observed) <cmp> float(expected); except Exception: False
FloatCompare(kind, observed, expected) ==
  LET cmp(a, b) ==
        IF Raised(a) \/ Raised(b) THEN Ret(FALSE)
        ELSE IF kind = "gt" THEN Ret(FracLess(b.val, a.val))
        ELSE Ret(FracLess(a.val, b.val))
  IN cmp(FloatOf(observed), FloatOf(expected))

\* the branches of _eval_single that look at the rule's path first
Versioned(kind, observed, expected, rule, plain) ==
  LET branch(tp) ==
        IF Raised(tp) THEN tp
        ELSE IF tp.val THEN VersionCompare(kind, observed, expected)
        ELSE plain
  IN branch(TlsPath(rule))

eval_single(operator, observed, expected, rule) ==
  IF PyEq(operator, OpExists) THEN Ret(~IsNone(observed))
  ELSE IF PyEq(operator, OpAbsent) THEN Ret(IsNone(observed))
  ELSE IF PyEq(operator, OpEquals)
    THEN Versioned("eq", observed, expected, rule, Ret(PyEq(observed, expected)))
  ELSE IF PyEq(operator, OpNotEquals)
    THEN Versioned("ne", observed, expected, rule, Ret(~PyEq(observed, expected)))
  ELSE IF PyEq(operator, OpIn)
    THEN IF ~IsNone(observed) THEN Contains(expected, observed) ELSE Ret(FALSE)
  ELSE IF PyEq(operator, OpRegex)
    THEN IF IsNone(observed) THEN Ret(FALSE)
         ELSE ReSearch(expected, StrOf(observed))
  ELSE IF PyEq(operator, OpGt)
    THEN Versioned("gt", observed, expected, rule,
                   FloatCompare("gt", observed, expected))
  ELSE IF PyEq(operator, OpLt)
    THEN Versioned("lt", observed, expected, rule,
                   FloatCompare("lt", observed, expected))
  ELSE Ret(FALSE)

(* ---------------------------------------------------------------------- *)
(* evaluate_rule                                                          *)
(* ---------------------------------------------------------------------- *)

\* Flatten going down into every nested list
RECURSIVE FlattenDeep(_)
FlattenDeep(items) ==
  IF items = << >> THEN << >>
  ELSE IF IsList(Head(items))
    THEN FlattenDeep(Val(Head(items))) \o FlattenDeep(Tail(items))
  ELSE << Head(items) >> \o FlattenDeep(Tail(items))

\* the one-level flattening loop: a list item is spliced in, any other kept
RECURSIVE Flatten(_)
Flatten(items) ==
  IF items = << >> THEN << >>
  ELSE IF IsList(Head(items)) THEN Val(Head(items)) \o Flatten(Tail(items))
  ELSE << Head(items) >> \o Flatten(Tail(items))

\* any(_eval_single(operator, item, expected) for item in items): stops at
\* the first true item
RECURSIVE AnyItem(_, _, _)
AnyItem(operator, items, expected) ==
  IF items = << >> THEN Ret(FALSE)
  ELSE LET next(r) ==
             IF Raised(r) THEN r
             ELSE IF r.val THEN Ret(TRUE)
             ELSE AnyItem(operator, Tail(items), expected)
       IN next(eval_single(operator, Head(items), expected, NoRule))

\* AllItems with any() in the place of all()
AllItemsAsAny(operator, items, expected) == AnyItem(operator, items, expected)

\* all(_eval_single(operator, item, expected) for item in items): stops at
\* the first false item; an item that raises before that ends the call
RECURSIVE AllItems(_, _, _)
AllItems(operator, items, expected) ==
  IF items = << >> THEN Ret(TRUE)
  ELSE LET next(r) ==
             IF Raised(r) THEN r
             ELSE IF ~r.val THEN Ret(FALSE)
             ELSE AllItems(operator, Tail(items), expected)
       IN next(eval_single(operator, Head(items), expected, NoRule))

\* Negate with the `not` left out
NegateDropped(r) == r

\* `not x` of an outcome
Negate(r) == IF Raised(r) THEN r ELSE Ret(~r.val)

\* observed after the extraction step: None without a (truthy) expression
\* and when jmespath.search raises
Extract(rule, doc) ==
  LET orNone(r) == IF Raised(r) THEN Null ELSE r.val IN
  IF Truthy(Get(rule, "jmespath"))
  THEN orNone(Search(Get(rule, "jmespath"), doc))
  ELSE Null

\* observed as the verdict reports it: a list is replaced by its flattening
Observed(rule, doc) ==
  LET flat(o) == IF IsList(o) THEN PyList(Flatten(Val(o))) ELSE o IN
  flat(Extract(rule, doc))

\* Passed with regex aggregated over a list as every other operator is
PassedSamePolarity(rule, doc) ==
  LET operator == GetOr(rule, "operator", OpExists)
      expected == Get(rule, "expected")
      of(observed) ==
        IF IsList(observed)
        THEN AllItems(operator, Val(observed), expected)
        ELSE eval_single(operator, observed, expected, rule)
  IN of(Observed(rule, doc))

\* the value of `passed`, or the exception that ends the call
Passed(rule, doc) ==
  LET operator == GetOr(rule, "operator", OpExists)
      expected == Get(rule, "expected")
      of(observed) ==
        IF IsList(observed)
        THEN IF PyEq(operator, OpRegex)
             THEN Negate(AnyItem(operator, Val(observed), expected))
             ELSE AllItems(operator, Val(observed), expected)
        ELSE eval_single(operator, observed, expected, rule)
  IN of(Observed(rule, doc))

Verdict(rule, passed, observed) ==
  [id |-> Get(rule, "id"),
   title |-> Get(rule, "title"),
   severity |-> GetOr(rule, "severity", PyStr("info")),
   passed |-> passed,
   observed |-> observed,
   message |-> Get(rule, "message"),
   remediation |-> Get(rule, "remediation"),
   reference |-> Get(rule, "reference")]

\* evaluate_rule(rule, doc): the verdict, or the exception it lets through
evaluate_rule(rule, doc) ==
  LET result(p) ==
        IF Raised(p) THEN p ELSE Ret(Verdict(rule, p.val, Observed(rule, doc)))
  IN result(Passed(rule, doc))

(* ---------------------------------------------------------------------- *)
(* run_rules_for_file and the calls of the engine                         *)
(* ---------------------------------------------------------------------- *)

VARIABLES
  pc,       \* "idle", "evaluated" (evaluate_rule returned or raised),
            \* "loop" (inside run_rules_for_file), "returned", "raised"
  call,     \* the arguments of the evaluate_rule call just made
  out,      \* its outcome: Ret(verdict) or Raise(exception)
  rules,    \* run_rules_for_file's rules
  doc,      \* run_rules_for_file's parsed_doc
  r,        \* the position of the loop `for r in rules` (1-based)
  results,  \* run_rules_for_file's results list
  cli       \* the command-line run in progress: its rules, files, fail
            \* level, report and exit status

vars == << pc, call, out, rules, doc, r, results, cli >>

(* the inputs of the model *)

\* the longest generated list observation
MaxListLen == 3

\* the longest rule list given to run_rules_for_file
MaxRules == 2

SeqsUpTo(S, n) == UNION { [1..k -> S] : k \in 0..n }

ObsScalars ==
  { Null, PyInt(1), PyInt(2), PyInt(5), PyInt(42), PyBool(TRUE),
    PyStr("abc"), PyStr("5"), PyStr("1.5"), PyStr("b"),
    PyStr("tls12"), PyStr("tls13"), PyStr("tls1.2"),
    PyStr("safe"), PyStr("BEGIN SECRET"),
    PyMap(<< << "bar", PyInt(42) >> >>) }

ObsLists ==
  { PyList(s) : s \in SeqsUpTo({Null, PyInt(1), PyInt(2)}, MaxListLen) }
  \cup
  { PyList(<< PyInt(1), PyInt(1), PyInt(1) >>),
    PyList(<< PyInt(1), PyInt(2), PyInt(1) >>),
    PyList(<< PyStr("safe"), PyStr("BEGIN SECRET") >>),
    PyList(<< PyStr("safe"), PyStr("abc") >>),
    PyList(<< PyStr("b"), PyStr("a") >>),
    PyList(<< PyStr("tls13") >>),
    PyList(<< PyStr("tls12"), PyStr("tls13") >>),
    PyList(<< PyInt(5), PyStr("abc") >>),
    PyList(<< PyList(<< >>) >>),
    PyList(<< PyList(<< PyInt(1) >>), PyList(<< PyInt(2) >>) >>),
    PyList(<< PyInt(1), PyList(<< PyInt(1), Null >>) >>),
    PyList(<< PyList(<< PyInt(1), PyList(<< PyInt(2) >>) >>) >>) }

Observations == ObsScalars \cup ObsLists

\* a parsed configuration holding the value o under several paths
DocOf(o) ==
  PyMap(<< << "foo", PyMap(<< << "bar", PyInt(42) >> >>) >>,
           << "items", o >>,
           << "listener",
              PyList(<< PyMap(<< << "tls_min_version", o >> >>),
                        PyMap(<< << "address", PyStr("a") >> >>) >>) >> >>)

Docs == { DocOf(o) : o \in Observations }

Paths ==
  { Missing, Null, PyStr(""),
    PyStr("items"), PyStr("items[*]"), PyStr("items[0]"),
    PyStr("foo.bar"), PyStr("foo.baz"), PyStr("foo.bar.baz"),
    PyStr("foo["), PyStr("foo[.tls_min_version"),
    PyStr("listener[0].tls_min_version"), PyStr("listener[*].tls_min_version"), PyStr("nope.tls_min_version") }

Operators == OPERATORS \cup { Missing, Null, PyStr("startswith") }

Expecteds ==
  { Missing, Null, PyInt(1), PyInt(5), PyInt(42),
    PyStr("tls12"), PyStr("tlsx"), PyStr("abc"), PyStr("5"),
    PyStr("BEGIN"), PyStr("("),
    PyList(<< PyStr("a"), PyStr("b"), PyStr("c") >>),
    PyList(<< Null, PyInt(1) >>) }

\* a rule record with the keys that decide the verdict; it has an id and no
\* other metadata
Rule(path, operator, expected) ==
  [id |-> PyStr("R1"), title |-> Missing, severity |-> Missing,
   jmespath |-> path, operator |-> operator, expected |-> expected,
   message |-> Missing, remediation |-> Missing, reference |-> Missing]

EvalRules ==
  { Rule(p, o, e) : p \in Paths, o \in Operators, e \in Expecteds }

\* the rules of the run_rules_for_file calls: metadata present, absent and
\* null, a repeated id, and a rule whose evaluation raises
RunRules ==
  { [id |-> PyStr("R1"), title |-> PyStr("TLS"), severity |-> PyStr("critical"),
     jmespath |-> PyStr("foo.bar"), operator |-> OpEquals, expected |-> PyInt(42),
     message |-> PyStr("fix"), remediation |-> PyStr("fix"), reference |-> Null],
    [id |-> PyStr("R1"), title |-> Missing, severity |-> Missing,
     jmespath |-> PyStr("items"), operator |-> Missing, expected |-> Missing,
     message |-> Missing, remediation |-> Missing, reference |-> Missing],
    [id |-> PyStr("R2"), title |-> PyStr("TLS"), severity |-> PyStr("warning"),
     jmespath |-> PyStr("listener[*].tls_min_version"), operator |-> OpGt,
     expected |-> PyInt(1),
     message |-> Missing, remediation |-> PyStr("fix"), reference |-> PyStr("fix")],
    [id |-> Missing, title |-> Missing, severity |-> Null,
     jmespath |-> PyStr("foo.baz"), operator |-> OpAbsent, expected |-> Missing,
     message |-> PyStr("fix"), remediation |-> Missing, reference |-> Missing],
    [id |-> PyStr("R2"), title |-> Missing, severity |-> PyStr("warning"),
     jmespath |-> PyStr("items"), operator |-> OpIn, expected |-> PyInt(5),
     message |-> Missing, remediation |-> Missing, reference |-> Missing] }

RunDocs == { DocOf(o) : o \in { Null, PyInt(1), PyInt(42),
                                PyList(<< PyInt(1), PyInt(2) >>) } }

\* the rules of the command-line runs: those of RunRules, a rule whose
\* severity is outside the order and a critical rule that can fail
CliRules ==
  RunRules \cup
  { [id |-> PyStr("R3"), title |-> Missing, severity |-> PyStr("high"),
     jmespath |-> PyStr("items"), operator |-> OpEquals, expected |-> PyInt(1),
     message |-> Missing, remediation |-> Missing, reference |-> Missing],
    [id |-> PyStr("R4"), title |-> Missing, severity |-> PyStr("critical"),
     jmespath |-> PyStr("items"), operator |-> OpEquals, expected |-> PyInt(42),
     message |-> Missing, remediation |-> Missing, reference |-> Missing] }

\* what collect_configs returns: (path, parsed) pairs
FileA ==
  [path |-> "a.hcl",
   parsed |-> DocOf(PyList(<< PyList(<< PyInt(1) >>), PyList(<< PyInt(2) >>) >>))]

FileB == [path |-> "b.hcl", parsed |-> DocOf(PyInt(42))]

FileC == [path |-> "c.hcl", parsed |-> DocOf(Null)]

CliFiles ==
  { << >>, << FileA >>, << FileA, FileB >>, << FileB, FileA >>,
    << FileC, FileB >> }

\* --fail-level: click.Choice(["info", "warning", "critical"]), default None
FailLevels == { Null, PyStr("info"), PyStr("warning"), PyStr("critical") }

\* order = {"info": 0, "warning": 1, "critical": 2}
order == [info |-> 0, warning |-> 1, critical |-> 2]

\* order[key]: a KeyError for a key the mapping lacks, a TypeError for an
\* unhashable one
Rank(key) ==
  IF Tag(key) \in {"list", "map"} THEN Raise("TypeError")
  ELSE IF IsStr(key) /\ Val(key) \in DOMAIN order THEN Ret(order[Val(key)])
  ELSE Raise("KeyError")

\* `for r in entry["results"]`: TRUE when a verdict makes the command raise
\* SystemExit(2), FALSE when the loop ends, or the exception of order[...];
\* `and` looks the severity up for a failed verdict only
RECURSIVE ScanResults(_, _)
ScanResults(rs, fail_level) ==
  IF rs = << >> THEN Ret(FALSE)
  ELSE LET hit(rank) ==
             IF Raised(rank) THEN rank
             ELSE IF rank.val >= order[Val(fail_level)] THEN Ret(TRUE)
             ELSE ScanResults(Tail(rs), fail_level)
       IN IF Head(rs).passed THEN ScanResults(Tail(rs), fail_level)
          ELSE hit(Rank(Head(rs).severity))

\* `for entry in report`
RECURSIVE ScanReport(_, _)
ScanReport(report, fail_level) ==
  IF report = << >> THEN Ret(FALSE)
  ELSE LET next(s) ==
             IF Raised(s) THEN s
             ELSE IF s.val THEN s
             ELSE ScanReport(Tail(report), fail_level)
       IN next(ScanResults(Head(report).results, fail_level))

\* the status the process ends with after the report is printed: 0 when the
\* command returns, 2 for SystemExit(2), 1 for an exception nobody catches
ExitStatus(fail_level, report) ==
  IF ~Truthy(fail_level) THEN 0
  ELSE LET status(s) == IF Raised(s) THEN 1 ELSE IF s.val THEN 2 ELSE 0
       IN status(ScanReport(report, fail_level))

NoCli ==
  [phase |-> "off", all_rules |-> << >>, files |-> << >>, k |-> 1,
   fail_level |-> Null, report |-> << >>, status |-> 0,
   given |-> [rules |-> << >>, files |-> << >>]]

NoCall == [rule |-> NoRule, doc |-> Null]

NoOut == Raise("nothing")

TypeOK ==
  /\ pc \in {"idle", "evaluated", "loop", "returned", "raised", "cli"}
  /\ cli.phase \in {"off", "files", "exited"}
  /\ cli.status \in {0, 1, 2}
  /\ Len(cli.report) <= Len(cli.files)
  /\ r \in 1..(MaxRules + 1)
  /\ Len(rules) <= MaxRules
  /\ Len(results) <= Len(rules)

Init ==
  /\ pc = "idle"
  /\ call = NoCall
  /\ out = NoOut
  /\ rules = << >>
  /\ doc = Null
  /\ r = 1
  /\ results = << >>
  /\ cli = NoCli

\* one call evaluate_rule(rule, d), for any rule and document of the model
Evaluate ==
  /\ pc = "idle"
  /\ \E rule \in EvalRules, d \in Docs :
       /\ call' = [rule |-> rule, doc |-> d]
       /\ out' = evaluate_rule(rule, d)
  /\ pc' = "evaluated"
  /\ UNCHANGED << rules, doc, r, results, cli >>

\* the caller has taken the outcome
EvaluateDone ==
  /\ pc = "evaluated"
  /\ pc' = "idle"
  /\ call' = NoCall
  /\ out' = NoOut
  /\ UNCHANGED << rules, doc, r, results, cli >>

\* run_rules_for_file(rs, d) is entered, for any rule list and document of
\* the model: results = []
RunStart ==
  /\ pc = "idle"
  /\ \E rs \in SeqsUpTo(RunRules, MaxRules), d \in RunDocs :
       /\ rules' = rs
       /\ doc' = d
  /\ pc' = "loop"
  /\ r' = 1
  /\ results' = << >>
  /\ UNCHANGED << call, out, cli >>

\* RunStep with the verdict put in front of the list instead of appended
RunStepPrepend ==
  /\ pc = "loop"
  /\ r <= Len(rules)
  /\ \E o \in {evaluate_rule(rules[r], doc)} :
       IF Raised(o)
       THEN /\ pc' = "raised"
            /\ UNCHANGED << r, results >>
       ELSE /\ pc' = "loop"
            /\ results' = << o.val >> \o results
            /\ r' = r + 1
  /\ UNCHANGED << call, out, rules, doc, cli >>

\* the document after a flattening that writes the flat list back into the
\* list object the path selected (`observed[:] = flat`)
FlattenedInPlace(rule, d) ==
  LET with(o) ==
        IF IsList(o)
        THEN PyMap([i \in 1..Len(Val(d)) |->
                     IF Val(d)[i][2] = o
                     THEN << Val(d)[i][1], PyList(Flatten(Val(o))) >>
                     ELSE Val(d)[i]])
        ELSE d
  IN with(Extract(rule, d))

\* RunStep with evaluate_rule flattening the observed list in place
RunStepFlattenInPlace ==
  /\ pc = "loop"
  /\ r <= Len(rules)
  /\ \E o \in {evaluate_rule(rules[r], doc)} :
       IF Raised(o)
       THEN /\ pc' = "raised"
            /\ UNCHANGED << r, results >>
       ELSE /\ pc' = "loop"
            /\ results' = Append(results, o.val)
            /\ r' = r + 1
  /\ doc' = FlattenedInPlace(rules[r], doc)
  /\ UNCHANGED << call, out, rules, cli >>

\* one iteration: results.append(evaluate_rule(r, parsed_doc)); an exception
\* of evaluate_rule leaves run_rules_for_file
RunStep ==
  /\ pc = "loop"
  /\ r <= Len(rules)
  /\ \E o \in {evaluate_rule(rules[r], doc)} :
       IF Raised(o)
       THEN /\ pc' = "raised"
            /\ UNCHANGED << r, results >>
       ELSE /\ pc' = "loop"
            /\ results' = Append(results, o.val)
            /\ r' = r + 1
  /\ UNCHANGED << call, out, rules, doc, cli >>

\* return results
RunReturn ==
  /\ pc = "loop"
  /\ r > Len(rules)
  /\ pc' = "returned"
  /\ UNCHANGED << call, out, rules, doc, r, results, cli >>

\* the caller has taken the result (or the exception)
RunDone ==
  /\ pc \in {"returned", "raised"}
  /\ cli.phase = "off"
  /\ pc' = "idle"
  /\ rules' = << >>
  /\ doc' = Null
  /\ r' = 1
  /\ results' = << >>
  /\ UNCHANGED << call, out, cli >>

\* the command starts: files = collect_configs(paths), all_rules loaded; it
\* returns at once when there are no files
CliStart ==
  /\ pc = "idle"
  /\ cli.phase = "off"
  /\ \E rs \in SeqsUpTo(CliRules, MaxRules), fs \in CliFiles, fl \in FailLevels :
       cli' = [phase |-> IF fs = << >> THEN "exited" ELSE "files",
               all_rules |-> rs, files |-> fs, k |-> 1, fail_level |-> fl,
               report |-> << >>, status |-> 0,
               given |-> [rules |-> rs, files |-> fs]]
  /\ pc' = "cli"
  /\ UNCHANGED << call, out, rules, doc, r, results >>

\* `for path, parsed in files: results = run_rules_for_file(all_rules,
\* parsed)`: the call, with the command's own objects as arguments
CliRun ==
  /\ pc = "cli"
  /\ cli.phase = "files"
  /\ cli.k <= Len(cli.files)
  /\ rules' = cli.all_rules
  /\ doc' = cli.files[cli.k].parsed
  /\ r' = 1
  /\ results' = << >>
  /\ pc' = "loop"
  /\ UNCHANGED << call, out, cli >>

\* the call returned: report.append({"file": str(path), "results":
\* results}); all_rules and parsed are the objects the call worked on
CliCollect ==
  /\ pc = "returned"
  /\ cli.phase = "files"
  /\ cli' = [cli EXCEPT
               !.report = Append(@, [file |-> cli.files[cli.k].path,
                                     results |-> results]),
               !.all_rules = rules,
               !.files[cli.k].parsed = doc,
               !.k = @ + 1]
  /\ pc' = "cli"
  /\ rules' = << >>
  /\ doc' = Null
  /\ r' = 1
  /\ results' = << >>
  /\ UNCHANGED << call, out >>

\* the call raised: nothing in the command catches it
CliRaise ==
  /\ pc = "raised"
  /\ cli.phase = "files"
  /\ cli' = [cli EXCEPT !.phase = "exited", !.status = 1]
  /\ pc' = "cli"
  /\ rules' = << >>
  /\ doc' = Null
  /\ r' = 1
  /\ results' = << >>
  /\ UNCHANGED << call, out >>

\* all files done: print_report, then the exit-code loop
CliExit ==
  /\ pc = "cli"
  /\ cli.phase = "files"
  /\ cli.k > Len(cli.files)
  /\ cli' = [cli EXCEPT !.phase = "exited",
                        !.status = ExitStatus(cli.fail_level, cli.report)]
  /\ UNCHANGED << pc, call, out, rules, doc, r, results >>

\* the process is gone
CliDone ==
  /\ pc = "cli"
  /\ cli.phase = "exited"
  /\ cli' = NoCli
  /\ pc' = "idle"
  /\ UNCHANGED << call, out, rules, doc, r, results >>

Next ==
  \/ Evaluate
  \/ EvaluateDone
  \/ RunStart
  \/ RunStep
  \/ RunReturn
  \/ RunDone
  \/ CliStart
  \/ CliRun
  \/ CliCollect
  \/ CliRaise
  \/ CliExit
  \/ CliDone

Spec == Init /\ [][Next]_vars

(* ---------------------------------------------------------------------- *)
(* Properties: what they speak about                                      *)
(* ---------------------------------------------------------------------- *)

\* an evaluate_rule call has just ended, by a return or by an exception
Called == pc = "evaluated"

\* it returned a verdict
Returned == Called /\ ~Raised(out)

\* the operator of the call's rule, `exists` when the rule has none
CallOperator ==
  IF call.rule.operator = Missing THEN OpExists ELSE call.rule.operator

CallExpected ==
  IF call.rule.expected = Missing THEN Null ELSE call.rule.expected

\* what the rule's path expression selects in the call's document
CallObserved == Extract(call.rule, call.doc)

\* the elements the aggregation ranges over when that is a list
CallItems == Flatten(Val(CallObserved))

KnownOperator == \E o \in OPERATORS : CallOperator = o

\* the rule's path expression is a string ending with tls_min_version
CallOnTlsPath ==
  /\ IsStr(call.rule.jmespath)
  /\ EndsWith(Chars(Val(call.rule.jmespath)), S_tls_min_version)

(* ---------------------------------------------------------------------- *)
(* C1                                                                     *)
(* ---------------------------------------------------------------------- *)

\* C1: evaluate_rule never raises: every call, whatever the rule and the
\* document, returns a verdict whose `passed` is a boolean.
C1_NeverRaises ==
  Called => (~Raised(out) /\ out.val.passed \in BOOLEAN)

(* ---------------------------------------------------------------------- *)
(* C2                                                                     *)
(* ---------------------------------------------------------------------- *)

\* C2: a rule whose operator is none of the eight known ones gets
\* passed = false, whatever the observation (null, scalar, mapping, list,
\* empty list) and the expected value.
C2_UnknownOperatorFails ==
  (Called /\ ~KnownOperator) => (~Raised(out) /\ out.val.passed = FALSE)

(* ---------------------------------------------------------------------- *)
(* C3                                                                     *)
(* ---------------------------------------------------------------------- *)

\* C3 as stated: with `exists` (or no operator) passed is true exactly when
\* the observation is non-null, a list included; with `absent` passed is
\* true exactly when the observation is null.
C3_ExistsIffNonNull ==
  /\ (Called /\ CallOperator = OpExists)
       => (~Raised(out) /\ out.val.passed = ~IsNone(CallObserved))
  /\ (Called /\ CallOperator = OpAbsent)
       => (~Raised(out) /\ out.val.passed = IsNone(CallObserved))

\* C3 as amended: with `exists` (or no operator) a non-list observation
\* passes exactly when it is non-null and a list observation passes exactly
\* when every element of its one-level flattening is non-null; with `absent`
\* a non-list observation passes exactly when it is null and a list
\* observation passes exactly when every element of its flattening is null
\* (so the empty list passes both).
C3_ExistsAbsent ==
  /\ (Called /\ CallOperator = OpExists)
       => /\ ~Raised(out)
          /\ out.val.passed =
               IF IsList(CallObserved)
               THEN \A i \in 1..Len(CallItems) : ~IsNone(CallItems[i])
               ELSE ~IsNone(CallObserved)
  /\ (Called /\ CallOperator = OpAbsent)
       => /\ ~Raised(out)
          /\ out.val.passed =
               IF IsList(CallObserved)
               THEN \A i \in 1..Len(CallItems) : IsNone(CallItems[i])
               ELSE IsNone(CallObserved)

\* a rule without an operator met a list holding a null element and failed
C3_Witness ==
  /\ Returned
  /\ call.rule.operator = Missing
  /\ IsList(CallObserved)
  /\ \E i \in 1..Len(CallItems) : IsNone(CallItems[i])
  /\ Len(CallItems) > 1
  /\ out.val.passed = FALSE

(* ---------------------------------------------------------------------- *)
(* C4                                                                     *)
(* ---------------------------------------------------------------------- *)

\* the single-value predicate holds of x: the call made for an element of
\* the list returns true
HoldsOf(x) ==
  LET e == eval_single(CallOperator, x, CallExpected, NoRule)
  IN ~Raised(e) /\ e.val

RaisesOn(x) == Raised(eval_single(CallOperator, x, CallExpected, NoRule))

AggregatedAll ==
  { OpExists, OpAbsent, OpEquals, OpNotEquals, OpIn, OpGt, OpLt }

\* C4: for a list observation and an operator other than regex, passed is
\* true exactly when the single-value predicate holds of every element of
\* the one-level flattening (whenever no element's predicate raises, a
\* verdict is returned); [1,1,1] equals 1 passes, [1,2,1] fails, and the
\* empty list passes.
C4_ListAll ==
  (Called /\ IsList(CallObserved) /\ CallOperator \in AggregatedAll)
    => /\ (Returned /\ out.val.passed)
            <=> (\A i \in 1..Len(CallItems) : HoldsOf(CallItems[i]))
       /\ (\A i \in 1..Len(CallItems) : ~RaisesOn(CallItems[i])) => Returned
       /\ (CallOperator = OpEquals /\ CallExpected = PyInt(1))
            => /\ CallItems = << PyInt(1), PyInt(1), PyInt(1) >>
                    => (Returned /\ out.val.passed)
               /\ CallItems = << PyInt(1), PyInt(2), PyInt(1) >>
                    => (Returned /\ ~out.val.passed)
       /\ CallItems = << >> => (Returned /\ out.val.passed)

\* [1,2,1] was compared with `equals 1` and failed
C4_Witness ==
  /\ Returned
  /\ CallOperator = OpEquals
  /\ CallExpected = PyInt(1)
  /\ CallObserved = PyList(<< PyInt(1), PyInt(2), PyInt(1) >>)
  /\ out.val.passed = FALSE

(* ---------------------------------------------------------------------- *)
(* C5                                                                     *)
(* ---------------------------------------------------------------------- *)

\* expected is a pattern re accepts
ValidPattern == IsStr(CallExpected) /\ ReValid(Chars(Val(CallExpected)))

\* x is non-null and its string form contains a match of the pattern
Matches(x) ==
  ~IsNone(x) /\ ValidPattern /\ ReFound(Chars(Val(CallExpected)), StrOf(x))

\* C5: for a list observation and the operator regex, passed is false
\* exactly when some element of the flattening is non-null and its string
\* form contains a match of the expected pattern; with a pattern, a list
\* without such an element (the empty list, a list of nulls) passes.
C5_RegexList ==
  (Called /\ IsList(CallObserved) /\ CallOperator = OpRegex)
    => /\ (Returned /\ ~out.val.passed)
            <=> (\E i \in 1..Len(CallItems) : Matches(CallItems[i]))
       /\ ValidPattern => Returned
       /\ (\A i \in 1..Len(CallItems) : IsNone(CallItems[i]))
            => (Returned /\ out.val.passed)

\* ["safe", "BEGIN SECRET"] was checked against the pattern BEGIN and failed
C5_Witness ==
  /\ Returned
  /\ CallOperator = OpRegex
  /\ CallExpected = PyStr("BEGIN")
  /\ CallObserved = PyList(<< PyStr("safe"), PyStr("BEGIN SECRET") >>)
  /\ out.val.passed = FALSE

(* ---------------------------------------------------------------------- *)
(* C6                                                                     *)
(* ---------------------------------------------------------------------- *)

\* v is "tls" followed by decimal digits
IsTlsDigits(v) ==
  /\ IsStr(v)
  /\ StartsWith(Chars(Val(v)), S_tls)
  /\ AllDigits(Drop(Chars(Val(v)), Len(S_tls) + 1))

\* the transform T as the claim states it: the digits of "tls"+digits as an
\* integer, 0 for null, any other value itself
ClaimedT(v) ==
  IF IsTlsDigits(v) THEN PyInt(DigitsVal(Drop(Chars(Val(v)), Len(S_tls) + 1)))
  ELSE IF IsNone(v) THEN PyInt(0)
  ELSE v

\* a and b can be ordered: two numbers, or two strings
Ordered(a, b) == (IsNum(a) /\ IsNum(b)) \/ (IsStr(a) /\ IsStr(b))

ClaimedLess(a, b) ==
  IF IsNum(a) THEN NumOf(a) < NumOf(b) ELSE StrLess(Chars(Val(a)), Chars(Val(b)))

\* C6: on a path ending with tls_min_version and for a non-list observation,
\* equals / not_equals / gt / lt return the comparison of T(observed) with
\* T(expected), T as stated (gt and lt wherever the two can be ordered);
\* so equals "tls12" passes for "tls12" and fails for "tls13" and for null.
C6_VersionCompare ==
  (Called /\ CallOnTlsPath /\ ~IsList(CallObserved))
    => LET a == ClaimedT(CallObserved)
           b == ClaimedT(CallExpected)
       IN /\ CallOperator = OpEquals
               => (Returned /\ out.val.passed = PyEq(a, b))
          /\ CallOperator = OpNotEquals
               => (Returned /\ out.val.passed = ~PyEq(a, b))
          /\ (CallOperator = OpGt /\ Ordered(a, b))
               => (Returned /\ out.val.passed = ClaimedLess(b, a))
          /\ (CallOperator = OpLt /\ Ordered(a, b))
               => (Returned /\ out.val.passed = ClaimedLess(a, b))

(* ---------------------------------------------------------------------- *)
(* C7                                                                     *)
(* ---------------------------------------------------------------------- *)

\* x has a numeric value: float(x) succeeds
Coerces(x) == ~Raised(FloatOf(x))

\* C7: with gt or lt, on any path, a non-list observation gets passed = false
\* and no exception when either operand is neither numeric nor "tls"+digits;
\* when both operands are numeric, passed is the strict comparison of their
\* values.
C7_GtLtFailSoft ==
  (Called /\ ~IsList(CallObserved) /\ CallOperator \in {OpGt, OpLt})
    => /\ ( \/ ~(Coerces(CallObserved) \/ IsTlsDigits(CallObserved))
            \/ ~(Coerces(CallExpected) \/ IsTlsDigits(CallExpected)) )
            => (Returned /\ out.val.passed = FALSE)
       /\ (Coerces(CallObserved) /\ Coerces(CallExpected))
            => /\ Returned
               /\ out.val.passed =
                    IF CallOperator = OpGt
                    THEN FracLess(FloatOf(CallExpected).val,
                                  FloatOf(CallObserved).val)
                    ELSE FracLess(FloatOf(CallObserved).val,
                                  FloatOf(CallExpected).val)

(* ---------------------------------------------------------------------- *)
(* C8                                                                     *)
(* ---------------------------------------------------------------------- *)

\* x is a member of the collection c; false when c supports no membership
\* test of x
MemberOf(c, x) == LET m == Contains(c, x) IN ~Raised(m) /\ m.val

\* C8: with `in` and a non-list observation, passed is true exactly when the
\* observation is non-null and a member of expected; a null observation and
\* an expected value without membership test give passed = false, never an
\* error.
C8_InMembership ==
  (Called /\ ~IsList(CallObserved) /\ CallOperator = OpIn)
    => /\ Returned
       /\ out.val.passed =
            (~IsNone(CallObserved) /\ MemberOf(CallExpected, CallObserved))

(* ---------------------------------------------------------------------- *)
(* C9                                                                     *)
(* ---------------------------------------------------------------------- *)

\* the rule has no path expression, or one that is malformed, names a key no
\* document has, or steps into a scalar
Unresolvable ==
  call.rule.jmespath \in
    { Missing, Null, PyStr(""), PyStr("foo["), PyStr("foo[.tls_min_version"),
      PyStr("foo.baz"), PyStr("foo.bar.baz"), PyStr("nope.tls_min_version") }

\* C9: when the path expression is absent or does not resolve, evaluate_rule
\* raises nothing and reports observed = null, `absent` passing and `exists`
\* failing; when it resolves, observed is the value found: foo.bar on
\* {foo: {bar: 42}} gives observed = 42, and passed = true with equals 42.
C9_ExtractionFailSoft ==
  /\ (Called /\ Unresolvable)
       => /\ Returned
          /\ out.val.observed = Null
          /\ CallOperator = OpAbsent => out.val.passed
          /\ CallOperator = OpExists => ~out.val.passed
  /\ (Returned /\ call.rule.jmespath = PyStr("foo.bar"))
       => /\ out.val.observed = PyInt(42)
          /\ (CallOperator = OpEquals /\ CallExpected = PyInt(42))
               => out.val.passed

(* ---------------------------------------------------------------------- *)
(* C10                                                                    *)
(* ---------------------------------------------------------------------- *)

\* rule.get(key) and rule.get("severity", "info"), read off the record
Echo(rule, key) == IF rule[key] = Missing THEN Null ELSE rule[key]

EchoSeverity(rule) ==
  IF rule.severity = Missing THEN PyStr("info") ELSE rule.severity

\* C10: inside run_rules_for_file the results are, in order, the verdicts of
\* the rules evaluated so far, each carrying its own rule's id, title,
\* severity (info when the rule has none), message, remediation and
\* reference; the list returned has exactly one verdict per rule.
C10_RunOrder ==
  /\ pc \in {"loop", "returned"}
       => /\ Len(results) = r - 1
          /\ \A i \in 1..Len(results) :
               /\ ~Raised(evaluate_rule(rules[i], doc))
               /\ results[i] = evaluate_rule(rules[i], doc).val
               /\ results[i].id = Echo(rules[i], "id")
               /\ results[i].title = Echo(rules[i], "title")
               /\ results[i].severity = EchoSeverity(rules[i])
               /\ results[i].message = Echo(rules[i], "message")
               /\ results[i].remediation = Echo(rules[i], "remediation")
               /\ results[i].reference = Echo(rules[i], "reference")
  /\ pc = "returned" => Len(results) = Len(rules)

\* a run over two different rules with the same id returned two verdicts,
\* the second with the default severity
C10_Witness ==
  /\ pc = "returned"
  /\ Len(rules) = 2
  /\ rules[1] # rules[2]
  /\ rules[1].id = rules[2].id
  /\ Len(results) = 2
  /\ results[1].severity = PyStr("critical")
  /\ results[2].severity = PyStr("info")
  /\ rules[2].severity = Missing

(* ---------------------------------------------------------------------- *)
(* C11                                                                    *)
(* ---------------------------------------------------------------------- *)

\* the verdicts rs are those of the rules evaluated, each on its own,
\* against the document d
Isolated(rs, given, d) ==
  /\ Len(rs) <= Len(given)
  /\ \A i \in 1..Len(rs) :
       /\ ~Raised(evaluate_rule(given[i], d))
       /\ rs[i] = evaluate_rule(given[i], d).val

ExitedAfterReport ==
  /\ cli.phase = "exited"
  /\ cli.files # << >>
  /\ cli.k > Len(cli.files)

\* the verdicts of the report
ReportVerdicts ==
  { cli.report[j].results[i] :
      j \in 1..Len(cli.report), i \in 1..Len(cli.given.rules) }

\* severity s is at or above level l in info < warning < critical
AtOrAbove(s, l) ==
  \/ l = PyStr("info") /\ s \in {PyStr("info"), PyStr("warning"), PyStr("critical")}
  \/ l = PyStr("warning") /\ s \in {PyStr("warning"), PyStr("critical")}
  \/ l = PyStr("critical") /\ s = PyStr("critical")

\* some verdict of the report failed with a severity at or above the level
FailedAtOrAbove ==
  \E v \in ReportVerdicts : ~v.passed /\ AtOrAbove(v.severity, cli.fail_level)

\* C12: with a fail level configured the command ends with status 2 iff some
\* verdict of the report has passed=false and a severity at or above the
\* level, and with status 0 otherwise; without a fail level it ends with
\* status 0.  This for every severity the rules carry.
C12_ExitCodePolicy ==
  ExitedAfterReport =>
    IF cli.fail_level = Null THEN cli.status = 0
    ELSE /\ cli.status = 2 <=> FailedAtOrAbove
         /\ ~FailedAtOrAbove => cli.status = 0

(* ---------------------------------------------------------------------- *)
(* C13                                                                    *)
(* ---------------------------------------------------------------------- *)

\* the single-value predicate of the call's rule on one element x, the rule
\* (and so its path) taken into account
VersionAwareOn(x) == eval_single(CallOperator, x, CallExpected, call.rule)

\* C13: on a path ending with tls_min_version a list observation is compared
\* element-wise through the version transform: with equals, not_equals, gt or
\* lt, passed is true iff the version-aware single-value predicate holds for
\* every element of the flattened list (wherever that predicate has a value
\* for each of them); so ["tls13"] gt "tls12" passes as "tls13" does.
C13_ListVersionAware ==
  ( /\ Called
    /\ CallOnTlsPath
    /\ IsList(CallObserved)
    /\ CallOperator \in {OpEquals, OpNotEquals, OpGt, OpLt}
    /\ \A i \in 1..Len(CallItems) : ~Raised(VersionAwareOn(CallItems[i])) )
    => /\ Returned
       /\ out.val.passed
            = (\A i \in 1..Len(CallItems) : VersionAwareOn(CallItems[i]).val)

(* ---------------------------------------------------------------------- *)
(* C14                                                                    *)
(* ---------------------------------------------------------------------- *)

\* the number of places the element x takes after one level of flattening
Width(x) == IF IsList(x) THEN Len(Val(x)) ELSE 1

\* the places taken by the first n elements of s
RECURSIVE WidthBefore(_, _)
WidthBefore(s, n) ==
  IF n = 0 THEN 0 ELSE WidthBefore(s, n - 1) + Width(s[n])

\* f is s flattened exactly one level: every element that is a list is
\* replaced, where it stood, by its own elements in order, untouched
\* themselves; every other element is kept
OneLevel(s, f) ==
  /\ Len(f) = WidthBefore(s, Len(s))
  /\ \A i \in 1..Len(s) :
       IF IsList(s[i])
       THEN \A j \in 1..Len(Val(s[i])) :
              f[WidthBefore(s, i - 1) + j] = Val(s[i])[j]
       ELSE f[WidthBefore(s, i - 1) + 1] = s[i]

\* C14: the verdict's observed field is the one-level flattening of a list
\* observation (nested lists two or more levels deep stay lists) and a
\* non-list observation itself.
C14_FlattenOneLevel ==
  Returned =>
    /\ IsList(CallObserved)
         => /\ IsList(out.val.observed)
            /\ OneLevel(Val(CallObserved), Val(out.val.observed))
    /\ ~IsList(CallObserved) => out.val.observed = CallObserved
    /\ CallObserved = PyList(<< PyInt(1), PyList(<< PyInt(1), Null >>) >>)
         => out.val.observed = PyList(<< PyInt(1), PyInt(1), Null >>)
    /\ CallObserved = PyList(<< PyList(<< PyInt(1), PyList(<< PyInt(2) >>) >>) >>)
         => out.val.observed = PyList(<< PyInt(1), PyList(<< PyInt(2) >>) >>)

\* [[1, [2]]] was observed and reported as [1, [2]]
C14_Witness ==
  /\ Returned
  /\ CallObserved = PyList(<< PyList(<< PyInt(1), PyList(<< PyInt(2) >>) >>) >>)
  /\ out.val.observed = PyList(<< PyInt(1), PyList(<< PyInt(2) >>) >>)

(* ---------------------------------------------------------------------- *)
(* C15                                                                    *)
(* ---------------------------------------------------------------------- *)

\* the call's rule evaluated on the one-element list [x]
OnListOf(x) ==
  evaluate_rule([call.rule EXCEPT !.jmespath = PyStr("items")],
                DocOf(PyList(<< x >>)))

====
